---- MODULE Spec2Model ----
(***************************************************************************)
(* Model of jinjaauth (src/app.py): an authenticated static-content        *)
(* gateway.  Strings are sequences of one-character strings so that the    *)
(* code's character-level operations (strip, split, startswith, suffix)    *)
(* are computed rather than assumed.                                       *)
(***************************************************************************)
EXTENDS Integers, Sequences, FiniteSets, TLC

VARIABLES
    cwd,         \* os.getcwd() of the process: the deployment root
    authEnv,     \* os.environ["AUTH"]: a string, or None
    authFile,    \* the file .auth in the deployment root: exists, mtime, lines
    auth_info,   \* the module-level cache {"mtime": ..., "emails": ...}
    present,     \* the default documents that currently exist in the root
    cookie,      \* the browser's cookie jar entry named "session"
    minted,      \* the emails for which googleauth has set a session cookie
    loggedOut,   \* the browser logged out and no callback has succeeded since
    envList,     \* the list get_authorized_emails first parsed from AUTH
    versions,    \* the parses of the versions of .auth that have existed
    readable,    \* the process may open .auth for reading
    checks,      \* per worker thread: where its get_authorized_emails call
                 \* stands, its locals and what it returned
    resp         \* the request just answered, its response and the pattern
                 \* list its check used, in the deployment as it stands

vars ==
    <<cwd, authEnv, authFile, auth_info, present, cookie, minted, loggedOut, envList,
      versions, readable, checks, resp>>

----------------------------------------------------------------------------
(* Strings                                                                 *)

None == [has |-> FALSE, val |-> <<>>]

Some(s) == [has |-> TRUE, val |-> s]

Whitespace == {" ", "\t", "\n", "\r"}

RECURSIVE LStrip(_)
LStrip(s) ==
    IF s # <<>> /\ Head(s) \in Whitespace THEN LStrip(Tail(s)) ELSE s

RECURSIVE RStrip(_)
RStrip(s) ==
    IF s # <<>> /\ s[Len(s)] \in Whitespace
    THEN RStrip(SubSeq(s, 1, Len(s) - 1))
    ELSE s

\* str.strip()
Strip(s) == RStrip(LStrip(s))

\* str.split(sep): always at least one item, empty items kept
RECURSIVE SplitFrom(_, _, _)
SplitFrom(s, sep, cur) ==
    IF s = <<>> THEN <<cur>>
    ELSE IF Head(s) = sep THEN <<cur>> \o SplitFrom(Tail(s), sep, <<>>)
    ELSE SplitFrom(Tail(s), sep, Append(cur, Head(s)))

Split(s, sep) == SplitFrom(s, sep, <<>>)

\* str.startswith(prefix)
StartsWith(s, prefix) ==
    /\ Len(prefix) <= Len(s)
    /\ SubSeq(s, 1, Len(prefix)) = prefix

\* x in list
InList(x, list) == \E i \in 1..Len(list) : list[i] = x

RECURSIVE MapStrip(_)
MapStrip(items) ==
    IF items = <<>> THEN <<>>
    ELSE <<Strip(Head(items))>> \o MapStrip(Tail(items))

RECURSIVE DropEmpty(_)
DropEmpty(items) ==
    IF items = <<>> THEN <<>>
    ELSE IF Head(items) = <<>> THEN DropEmpty(Tail(items))
    ELSE <<Head(items)>> \o DropEmpty(Tail(items))

----------------------------------------------------------------------------
(* fnmatch.fnmatch(name, pat) on a case-sensitive platform: `*` any run of  *)
(* characters, `?` any one character, `[seq]` one character of seq,        *)
(* `[!seq]` one character not in seq, an unclosed `[` a literal.           *)

\* index of the `]` closing the class opened at pat[1] = "[", or 0
RECURSIVE ClassEnd(_, _)
ClassEnd(pat, j) ==
    IF j > Len(pat) THEN 0
    ELSE IF pat[j] = "]" THEN j
    ELSE ClassEnd(pat, j + 1)

ClassStart(pat) ==
    LET j0 == IF Len(pat) >= 2 /\ pat[2] = "!" THEN 3 ELSE 2
    IN  IF j0 <= Len(pat) /\ pat[j0] = "]" THEN j0 + 1 ELSE j0

RECURSIVE fnmatch(_, _)
fnmatch(name, pat) ==
    IF pat = <<>> THEN name = <<>>
    ELSE IF Head(pat) = "*" THEN
        \/ fnmatch(name, Tail(pat))
        \/ name # <<>> /\ fnmatch(Tail(name), pat)
    ELSE IF Head(pat) = "?" THEN
        name # <<>> /\ fnmatch(Tail(name), Tail(pat))
    ELSE IF Head(pat) = "[" /\ ClassEnd(pat, ClassStart(pat)) # 0 THEN
        LET e   == ClassEnd(pat, ClassStart(pat))
            neg == pat[2] = "!"
            lo  == IF neg THEN 3 ELSE 2
            members == {pat[k] : k \in lo..(e - 1)}
        IN  /\ name # <<>>
            /\ (Head(name) \in members) # neg
            /\ fnmatch(Tail(name), SubSeq(pat, e + 1, Len(pat)))
    ELSE name # <<>> /\ Head(name) = Head(pat) /\ fnmatch(Tail(name), Tail(pat))

----------------------------------------------------------------------------
(* The allow-list store                                                    *)

\* auth_info = {"mtime": 0, "emails": []}
auth_info_init == [mtime |-> 0, emails |-> <<>>]

\* [pattern.strip() for pattern in auth.split(",")]
ParseEnv(auth) == MapStrip(Split(auth, ","))

\* patterns = [line.strip() for line in f.readlines()]
\* [pattern for pattern in patterns if pattern]
ParseFile(lines) == DropEmpty(MapStrip(lines))

\* if auth:
EnvSet(env) == env.has /\ env.val # <<>>

\* a get_authorized_emails that loads .auth once and never looks at its
\* modification time again
get_authorized_emails_LoadOnce(info, env, file) ==
    IF EnvSet(env) THEN
        LET info1 == IF info.emails = <<>>
                     THEN [info EXCEPT !.emails = ParseEnv(env.val)]
                     ELSE info
        IN  [info |-> info1, emails |-> info1.emails]
    ELSE IF ~file.exists THEN
        [info |-> info, emails |-> << <<"*">> >>]
    ELSE
        LET info1 == IF info.mtime = 0
                     THEN [mtime |-> file.mtime, emails |-> ParseFile(file.lines)]
                     ELSE info
        IN  [info |-> info1, emails |-> info1.emails]

\* get_authorized_emails(): the cache it leaves and the list it returns,
\* from the cache `info`, os.getenv("AUTH") `env` and the file .auth `file`
get_authorized_emails(info, env, file) ==
    IF EnvSet(env) THEN
        LET info1 == IF info.emails = <<>>
                     THEN [info EXCEPT !.emails = ParseEnv(env.val)]
                     ELSE info
        IN  [info |-> info1, emails |-> info1.emails]
    ELSE IF ~file.exists THEN
        [info |-> info, emails |-> << <<"*">> >>]
    ELSE
        LET info1 == IF file.mtime > info.mtime
                     THEN [mtime |-> file.mtime, emails |-> ParseFile(file.lines)]
                     ELSE info
        IN  [info |-> info1, emails |-> info1.emails]

\* is_authorized(email), given the list get_authorized_emails() returned
is_authorized(email, emails) == InList(email, emails)

\* a get_current_user that tests `session is None` where the code tests
\* `not session`
get_current_user_NoneOnly(session) ==
    IF ~session.has THEN None ELSE Some(session.val)

\* get_current_user(session): the email, or None for RedirectResponse("/login")
get_current_user(session) ==
    IF ~session.has \/ session.val = <<>> THEN None ELSE Some(session.val)

----------------------------------------------------------------------------
(* The filesystem.  A path is the sequence of its component names below    *)
(* "/"; the process's working directory is the deployment root.            *)

Dot    == <<".">>
DotDot == <<".", ".">>

N_srv    == <<"s", "r", "v">>
N_w      == <<"w">>
N_wold   == <<"w", "o", "l", "d">>
N_o      == <<"o">>
N_d      == <<"d">>
N_ptxt   == <<"p", ".", "t">>
N_stxt   == <<"s", ".", "t">>
N_env    == <<".", "e", "n", "v">>
N_auth   == <<".", "a", "u", "t", "h">>
N_ln     == <<"l", "n">>
N_out    == <<"o", "u", "t">>
N_hl     == <<".", "l">>
N_g      == <<".", "g">>
N_c      == <<"c">>
N_jinja2 == <<"i", "n", "d", "e", "x", ".", "j", "i", "n", "j", "a", "2">>
N_html   == <<"i", "n", "d", "e", "x", ".", "h", "t", "m", "l">>

N_v      == <<".", "v">>

\* pathlib.Path() is os.getcwd(), the directory the process was started in
Cwd == cwd

\* regular files that are always there
StaticFiles ==
    { Cwd \o <<N_d, N_ptxt>>,       \* /srv/w/d/p.t     a visible file
      Cwd \o <<N_env>>,             \* /srv/w/.env      a hidden file
      Cwd \o <<N_g, N_c>>,          \* /srv/w/.g/c      a file in a hidden directory
      <<N_srv, N_wold, N_stxt>>,    \* /srv/wold/s.t   in a sibling of the root
      <<N_srv, N_o, N_stxt>> }      \* /srv/o/s.t       elsewhere

\* the default documents, which come and go
DefaultDocs == { Cwd \o <<N_jinja2>>, Cwd \o <<N_html>> }

\* symbolic links and their targets, [abs, segs]
Links ==
    { Cwd \o <<N_ln>>, Cwd \o <<N_out>>, Cwd \o <<N_hl>> }

LinkTarget(p) ==
    IF p = Cwd \o <<N_ln>>  THEN [abs |-> FALSE, segs |-> <<N_env>>]
    ELSE IF p = Cwd \o <<N_out>> THEN [abs |-> TRUE, segs |-> <<N_srv, N_o>>]
    ELSE [abs |-> FALSE, segs |-> <<N_d, N_ptxt>>]

\* os.path.isfile of a canonical path
is_file(p) ==
    \/ p \in StaticFiles
    \/ p \in DefaultDocs /\ p \in present
    \/ p = Cwd \o <<N_auth>> /\ authFile.exists

Parent(p) == IF p = <<>> THEN <<>> ELSE SubSeq(p, 1, Len(p) - 1)

\* posixpath.realpath: walk the components, dropping ".", popping on "..",
\* following links, keeping components that do not exist
RECURSIVE realpath(_, _)
realpath(cur, rest) ==
    IF rest = <<>> THEN cur
    ELSE LET name == Head(rest)
             newpath == Append(cur, name)
         IN  IF name = <<>> \/ name = Dot THEN realpath(cur, Tail(rest))
             ELSE IF name = DotDot THEN realpath(Parent(cur), Tail(rest))
             ELSE IF newpath \in Links THEN
                 realpath(IF LinkTarget(newpath).abs THEN <<>> ELSE cur,
                          LinkTarget(newpath).segs \o Tail(rest))
             ELSE realpath(newpath, Tail(rest))

\* pathlib.Path(path).resolve() of a request path string
resolve(path) ==
    realpath(IF path # <<>> /\ Head(path) = "/" THEN <<>> ELSE Cwd,
             Split(path, "/"))

\* str(path) of an absolute path
RECURSIVE JoinFrom(_)
JoinFrom(p) ==
    IF p = <<>> THEN <<>> ELSE <<"/">> \o Head(p) \o JoinFrom(Tail(p))

Str(p) == IF p = <<>> THEN <<"/">> ELSE JoinFrom(p)

\* a dot-file check of the file's own name only
HasDotPart_NameOnly(p) == p # <<>> /\ StartsWith(p[Len(p)], <<".">>)

\* any(part.startswith(".") for part in file_path.parts); parts[0] is "/"
HasDotPart(p) == \E i \in 1..Len(p) : StartsWith(p[i], <<".">>)

\* PurePath.suffix
RECURSIVE RFind(_, _, _)
RFind(s, c, i) == IF i = 0 THEN 0 ELSE IF s[i] = c THEN i ELSE RFind(s, c, i - 1)

Suffix(p) ==
    IF p = <<>> THEN <<>>
    ELSE LET name == p[Len(p)]
             i == RFind(name, ".", Len(name))
         IN  IF 1 < i /\ i < Len(name) THEN SubSeq(name, i, Len(name)) ELSE <<>>

----------------------------------------------------------------------------
(* Responses                                                               *)

\* what a handler returns or raises; `reached` records the steps of the
\* handler that ran for the request
Response(status, kind, arg, location, reached) ==
    [status |-> status, kind |-> kind, arg |-> arg, location |-> location,
     cookieOp |-> "none", cookieVal |-> <<>>, cookieFlags |-> {},
     headers |-> {}, context |-> {}, calls |-> <<>>, reached |-> reached]

\* RedirectResponse(url): status_code defaults to 307
RedirectResponse(url, reached) ==
    Response(307, "RedirectResponse", <<>>, url, reached)

\* raise HTTPException(status_code=404)
NotFound(reached) == Response(404, "HTTPException", <<>>, "", reached)

\* a handler table that lists the raw-HTML extension first
TEMPLATE_HANDLERS_HtmlFirst ==
    << [ext |-> <<".", "h", "t", "m", "l">>, handler |-> "render_html"],
       [ext |-> <<".", "j", "i", "n", "j", "a", "2">>, handler |-> "render_jinja2"] >>

\* TEMPLATE_HANDLERS, in insertion order: extension and handler
TEMPLATE_HANDLERS ==
    << [ext |-> <<".", "j", "i", "n", "j", "a", "2">>, handler |-> "render_jinja2"],
       [ext |-> <<".", "h", "t", "m", "l">>, handler |-> "render_html"] >>

\* TEMPLATE_HANDLERS.get(file_path.suffix)
RECURSIVE HandlerFrom(_, _)
HandlerFrom(suffix, i) ==
    IF i > Len(TEMPLATE_HANDLERS) THEN "none"
    ELSE IF TEMPLATE_HANDLERS[i].ext = suffix THEN TEMPLATE_HANDLERS[i].handler
    ELSE HandlerFrom(suffix, i + 1)

\* for ext in TEMPLATE_HANDLERS.keys(): the first index{ext} that is a file
RECURSIVE DefaultFrom(_)
DefaultFrom(i) ==
    IF i > Len(TEMPLATE_HANDLERS) THEN <<>>
    ELSE LET default_path == <<"i", "n", "d", "e", "x">> \o TEMPLATE_HANDLERS[i].ext
         IN  IF is_file(resolve(default_path)) THEN default_path
             ELSE DefaultFrom(i + 1)

\* a traversal check with the two paths the wrong way round
TraversalOk_Swapped(file_path, root_path) ==
    StartsWith(Str(root_path), Str(file_path))

\* str(file_path).startswith(str(root_path))
TraversalOk(file_path, root_path) == StartsWith(Str(file_path), Str(root_path))

\* the steps of serve_static a request that reaches a handler has passed
AllSteps ==
    {"is_authorized", "default", "resolve", "traversal", "dotfiles", "is_file",
     "handler"}

\* a render_jinja2 that passes no variables to the template
render_jinja2_NoContext(file_path) ==
    Response(200, "render_jinja2", Str(file_path), "", AllSteps)

\* render_jinja2(file_path): the template rendered with the three asset URLs
render_jinja2(file_path) ==
    [Response(200, "render_jinja2", Str(file_path), "", AllSteps)
     EXCEPT !.context =
        {<<"bootstrap5_css_url",
           "https://cdn.jsdelivr.net/npm/bootstrap@5.3.2/dist/css/bootstrap.min.css">>,
         <<"bootstrap5_js_url",
           "https://cdn.jsdelivr.net/npm/bootstrap@5.3.2/dist/js/bootstrap.bundle.min.js">>,
         <<"script_js_url", "script.js">>}]

\* the part of serve_static after the authorization check
content(path0) ==
    LET path      == IF path0 = <<>> THEN DefaultFrom(1) ELSE path0
        file_path == resolve(path)
        root_path == resolve(<<>>)
        handler   == HandlerFrom(Suffix(file_path), 1)
    IN  IF ~TraversalOk(file_path, root_path) THEN
            NotFound({"is_authorized", "default", "resolve", "traversal"})
        ELSE IF HasDotPart(file_path) THEN
            NotFound({"is_authorized", "default", "resolve", "traversal", "dotfiles"})
        ELSE IF ~is_file(file_path) THEN
            NotFound({"is_authorized", "default", "resolve", "traversal", "dotfiles",
                      "is_file"})
        ELSE IF handler = "render_jinja2" THEN
            render_jinja2(file_path)
        ELSE IF handler # "none" THEN
            Response(200, handler, Str(file_path), "", AllSteps)
        ELSE
            [Response(200, "FileResponse", Str(file_path), "", AllSteps)
             EXCEPT !.headers = {"Cache-Control: private, max-age=3600",
                                 "X-Content-Type-Options: nosniff"}]

\* a serve_static that resolves and checks the path before it asks whether
\* the identity is authorized
serve_static_PathFirst(path, session) ==
    LET email == get_current_user(session)
        got   == get_authorized_emails(auth_info, authEnv, authFile)
        found == content(path)
    IN  IF ~email.has THEN
            [resp |-> RedirectResponse("/login", {}), info |-> auth_info,
             emails |-> None]
        ELSE IF found.status = 404 THEN
            [resp |-> found, info |-> got.info, emails |-> Some(got.emails)]
        ELSE IF ~is_authorized(email.val, got.emails) THEN
            [resp |-> Response(403, "unauthorized_html", email.val, "",
                               {"is_authorized"}),
             info |-> got.info, emails |-> Some(got.emails)]
        ELSE [resp |-> found, info |-> got.info, emails |-> Some(got.emails)]

\* serve_static(request, path, email = Depends(get_current_user)): the
\* response, the cache it leaves and the pattern list its check used
serve_static(path, session) ==
    LET email == get_current_user(session)
        got   == get_authorized_emails(auth_info, authEnv, authFile)
    IN  IF ~email.has THEN
            [resp |-> RedirectResponse("/login", {}), info |-> auth_info,
             emails |-> None]
        ELSE IF ~is_authorized(email.val, got.emails) THEN
            [resp |-> Response(403, "unauthorized_html", email.val, "",
                               {"is_authorized"}),
             info |-> got.info, emails |-> Some(got.emails)]
        ELSE [resp |-> content(path), info |-> got.info,
              emails |-> Some(got.emails)]

\* the elements of a sequence
Range(seq) == {seq[i] : i \in 1..Len(seq)}

\* raise HTTPException(status_code=400, detail=str(e)), after the calls made
ExchangeError(detail, calls) ==
    [Response(400, "HTTPException", <<detail>>, "", Range(calls))
     EXCEPT !.calls = calls]

\* response = RedirectResponse("/"); response.set_cookie("session", email,
\* httponly=True, secure=True, samesite="lax")
SetSession(email, calls) ==
    [RedirectResponse("/", Range(calls) \cup {"set_cookie"})
     EXCEPT !.cookieOp = "set", !.cookieVal = email,
            !.cookieFlags = {"httponly", "secure", "samesite=lax"},
            !.calls = calls \o <<"set_cookie">>]

\* a googleauth that mints the cookie without waiting for the verification
googleauth_Unverified(outcome, email) ==
    IF outcome = "post_error" THEN
        ExchangeError("post", <<"post">>)
    ELSE IF outcome = "status_error" THEN
        ExchangeError("raise_for_status", <<"post", "raise_for_status">>)
    ELSE IF outcome = "no_id_token" THEN
        ExchangeError("id_token", <<"post", "raise_for_status", "json">>)
    ELSE SetSession(email, <<"post", "raise_for_status", "json", "verify", "email">>)

\* a googleauth that posts to the token endpoint again when the exchange
\* fails, before it gives up
googleauth_Retry(outcome, email) ==
    IF outcome = "post_error" THEN
        ExchangeError("post", <<"post", "post">>)
    ELSE IF outcome = "status_error" THEN
        ExchangeError("raise_for_status",
                      <<"post", "raise_for_status", "post", "raise_for_status">>)
    ELSE IF outcome = "no_id_token" THEN
        ExchangeError("id_token", <<"post", "raise_for_status", "json">>)
    ELSE IF outcome = "verify_error" THEN
        ExchangeError("verify_oauth2_token",
                      <<"post", "raise_for_status", "json", "verify">>)
    ELSE IF outcome = "no_email" THEN
        ExchangeError("email", <<"post", "raise_for_status", "json", "verify", "email">>)
    ELSE SetSession(email, <<"post", "raise_for_status", "json", "verify", "email">>)

\* googleauth(code): `outcome` is what the identity provider and the token
\* verification do for this code, `email` the email claim of a verified token
googleauth(outcome, email) ==
    IF outcome = "post_error" THEN
        ExchangeError("post", <<"post">>)
    ELSE IF outcome = "status_error" THEN
        ExchangeError("raise_for_status", <<"post", "raise_for_status">>)
    ELSE IF outcome = "no_id_token" THEN
        ExchangeError("id_token", <<"post", "raise_for_status", "json">>)
    ELSE IF outcome = "verify_error" THEN
        ExchangeError("verify_oauth2_token",
                      <<"post", "raise_for_status", "json", "verify">>)
    ELSE IF outcome = "no_email" THEN
        ExchangeError("email", <<"post", "raise_for_status", "json", "verify", "email">>)
    ELSE SetSession(email, <<"post", "raise_for_status", "json", "verify", "email">>)

\* a logout that forgets response.delete_cookie("session")
logout_KeepsCookie == RedirectResponse("/login", {})

\* logout()
logout ==
    [RedirectResponse("/login", {}) EXCEPT !.cookieOp = "delete"]

\* login()
login == RedirectResponse("accounts.google.com", {})

\* what the browser's cookie jar holds after a response
ApplyCookie(jar, r) ==
    IF r.cookieOp = "set" THEN Some(r.cookieVal)
    ELSE IF r.cookieOp = "delete" THEN None
    ELSE jar

----------------------------------------------------------------------------
(* Inputs                                                                  *)

\* the latest modification time .auth is given
MaxMtime == 2

E_ax   == <<"a", "@", "x">>
E_by   == <<"b", "@", "y">>
E_cls  == <<"[", "a", "b", "]", "@", "x">>

\* emails the identity provider attests
VerifiedEmails == {E_ax}

\* cookie values a client can send
Identities == VerifiedEmails \cup {E_by, E_cls}

Sessions == {None, Some(<<>>)} \cup {Some(e) : e \in Identities}

\* values of AUTH in the environment
EnvValues ==
    { None,
      Some(<<"*", "@", "x", ",", " ", "b", "@", "y">>) }

\* contents of .auth, line by line
FileContents ==
    { <<>>,
      << E_ax, <<>>, <<" ", "*", "@", "y", " ">>, E_cls >> }

RECURSIVE Join(_)
Join(segs) ==
    IF segs = <<>> THEN <<>>
    ELSE IF Len(segs) = 1 THEN Head(segs)
    ELSE Head(segs) \o <<"/">> \o Join(Tail(segs))

\* request paths, as the route's {path:path} parameter delivers them
Paths ==
    { <<>>,                                   \* /
      N_html,                                 \* index.html
      Join(<<N_d, N_ptxt>>),                  \* d/p.t
      Join(<<N_d, DotDot, N_d, N_ptxt>>),     \* d/../d/p.t
      N_env,                                  \* .env
      Join(<<N_g, N_c>>),                     \* .g/c
      N_ln,                                   \* ln -> .env
      N_hl,                                   \* .l -> d/p.t
      Join(<<N_out, N_stxt>>),                \* out/s.t, out -> /srv/o
      Join(<<DotDot, N_wold, N_stxt>>),       \* ../wold/s.t
      Join(<<DotDot, N_o, N_stxt>>),          \* ../o/s.t
      <<"/">> \o Join(<<N_srv, N_o, N_stxt>>),   \* //srv/o/s.t
      <<"n">> }                               \* a missing file

Outcomes ==
    {"post_error", "status_error", "no_id_token", "verify_error", "no_email", "ok"}

----------------------------------------------------------------------------
(* The state machine                                                       *)

Request(route, path, session, outcome, email) ==
    [route |-> route, path |-> path, session |-> session,
     outcome |-> outcome, email |-> email]

\* no request has been answered since the deployment last changed
Idle ==
    [req |-> Request("none", <<>>, None, "none", <<>>),
     res |-> Response(0, "none", <<>>, "", {}),
     emails |-> None]

\* the threadpool workers that run serve_static
Threads == {1, 2}

\* a worker that is not inside get_authorized_emails
NoCheck ==
    [pc |-> "idle", new_time |-> 0, emails |-> <<>>, via |-> "none", result |-> <<>>]

\* the state of a process just started in the directory r
InitIn(r) ==
    /\ cwd = r
    /\ authEnv \in EnvValues
    /\ authFile \in
         {[exists |-> FALSE, mtime |-> 0, lines |-> <<>>]} \cup
         {[exists |-> TRUE, mtime |-> 1, lines |-> c] : c \in FileContents}
    /\ auth_info = auth_info_init
    /\ present \in SUBSET DefaultDocs
    /\ cookie = None
    /\ minted = {}
    /\ loggedOut = FALSE
    /\ envList = None
    /\ versions = IF authFile.exists THEN {ParseFile(authFile.lines)} ELSE {}
    /\ readable = TRUE
    /\ checks = [t \in Threads |-> NoCheck]
    /\ resp = Idle

\* the process is started in /srv/w
Init == InitIn(<<N_srv, N_w>>)

\* GET /{path}: by the browser, which sends the cookie of its jar, or by any
\* other client, which sends the cookie header it chooses
ServeStatic ==
    \E path \in Paths, session \in Sessions \cup {cookie} :
        /\ LET out == serve_static(path, session)
           IN  /\ auth_info' = out.info
               /\ resp' = [req |-> Request("serve_static", path, session, "none", <<>>),
                           res |-> out.resp, emails |-> out.emails]
               /\ envList' = IF ~envList.has /\ out.emails.has /\ EnvSet(authEnv)
                                  /\ auth_info.emails = <<>>
                               THEN out.emails
                               ELSE envList
        /\ UNCHANGED <<cwd, authEnv, authFile, present, cookie, minted, loggedOut,
                     versions, readable, checks>>

\* GET /googleauth/?code=...: the browser returns from the consent screen
GoogleAuth ==
    \E outcome \in Outcomes :
    \E email \in IF outcome = "ok" THEN VerifiedEmails ELSE {<<>>} :
        LET r == googleauth(outcome, email)
        IN  /\ resp' = [req |-> Request("googleauth", <<>>, cookie, outcome, email),
                        res |-> r, emails |-> None]
            /\ cookie' = ApplyCookie(cookie, r)
            /\ minted' = IF r.cookieOp = "set" THEN minted \cup {r.cookieVal}
                         ELSE minted
            /\ loggedOut' = IF r.cookieOp = "set" THEN FALSE ELSE loggedOut
            /\ UNCHANGED <<cwd, authEnv, authFile, auth_info, present, envList,
                     versions, readable, checks>>

\* GET /logout by the browser
Logout ==
    /\ resp' = [req |-> Request("logout", <<>>, cookie, "none", <<>>),
                res |-> logout, emails |-> None]
    /\ cookie' = ApplyCookie(cookie, logout)
    /\ loggedOut' = TRUE
    /\ UNCHANGED <<cwd, authEnv, authFile, auth_info, present, minted, envList,
                     versions, readable, checks>>

\* GET /login by the browser
Login ==
    /\ resp' = [req |-> Request("login", <<>>, cookie, "none", <<>>),
                res |-> login, emails |-> None]
    /\ UNCHANGED <<cwd, authEnv, authFile, auth_info, present, cookie, minted, loggedOut, envList,
                     versions, readable, checks>>

\* the operator writes .auth; its modification time advances
WriteAuth ==
    \E c \in FileContents :
        /\ authFile.mtime < MaxMtime
        /\ authFile' = [exists |-> TRUE, mtime |-> authFile.mtime + 1, lines |-> c]
        /\ versions' = versions \cup {ParseFile(c)}
        /\ resp' = Idle
        /\ UNCHANGED <<cwd, authEnv, auth_info, present, cookie, minted, loggedOut, envList,
                     readable, checks>>

\* the operator removes .auth
RemoveAuth ==
    /\ authFile.exists
    /\ authFile' = [authFile EXCEPT !.exists = FALSE, !.lines = <<>>]
    /\ resp' = Idle
    /\ UNCHANGED <<cwd, authEnv, auth_info, present, cookie, minted, loggedOut, envList,
                     versions, readable, checks>>

\* the operator adds or removes a default document
ToggleDoc ==
    \E d \in DefaultDocs :
        /\ present' = IF d \in present THEN present \ {d} ELSE present \cup {d}
        /\ resp' = Idle
        /\ UNCHANGED <<cwd, authEnv, authFile, auth_info, cookie, minted, loggedOut, envList,
                     versions, readable, checks>>

Next ==
    \/ ServeStatic
    \/ GoogleAuth
    \/ Logout
    \/ Login
    \/ WriteAuth
    \/ RemoveAuth
    \/ ToggleDoc

Spec == Init /\ [][Next]_vars

\* values AUTH is given while the process runs: removed, emptied, changed
EnvChanges ==
    EnvValues \cup {Some(<<>>), Some(<<"a", "@", "x">>)}

\* os.environ["AUTH"] is set, emptied or removed in the running process
SetEnv ==
    \E v \in EnvChanges :
        /\ v # authEnv
        /\ authEnv' = v
        /\ resp' = Idle
        /\ UNCHANGED <<cwd, authFile, auth_info, present, cookie, minted, loggedOut, envList,
                     versions, readable, checks>>

\* the gated content route in a process whose environment changes
NextEnv ==
    \/ ServeStatic
    \/ SetEnv
    \/ WriteAuth
    \/ RemoveAuth

SpecEnv == Init /\ [][NextEnv]_vars

-----------------------------------------------------------------------------
(* get_authorized_emails line by line.  serve_static is a plain `def`, so  *)
(* FastAPI runs each request on a threadpool worker; the workers share     *)
(* auth_info and may be switched between any two lines.                    *)

\* worker t takes the step from pc `from`, leaving its record as `rec`
Step(t, from, rec) ==
    /\ checks[t].pc = from
    /\ checks' = [checks EXCEPT ![t] = rec]

\* the call returns `list`, obtained `via` the cache, AUTH, the
\* FileNotFoundError handler, or not at all (an exception leaves the call)
Return(t, via, list) ==
    [checks[t] EXCEPT !.pc = "done", !.via = via, !.result = list]

ConcUnchanged == <<authEnv, present, cookie, minted, loggedOut, envList, resp>>

\* serve_static calls get_authorized_emails (is_authorized, app.py:92)
CheckBegin ==
    \E t \in Threads :
        /\ checks[t].pc \in {"idle", "done"}
        /\ checks' = [checks EXCEPT ![t] = [NoCheck EXCEPT !.pc = "l57"]]
        /\ UNCHANGED <<cwd, authFile, auth_info, versions, readable, ConcUnchanged>>

\* auth = os.getenv("AUTH"); if auth: the environment branch, lines 58-62
CheckEnv ==
    \E t \in Threads :
        /\ checks[t].pc = "l57"
        /\ IF EnvSet(authEnv)
           THEN LET got == get_authorized_emails(auth_info, authEnv, authFile)
                IN  /\ auth_info' = got.info
                    /\ checks' = [checks EXCEPT ![t] = Return(t, "env", got.emails)]
           ELSE /\ auth_info' = auth_info
                /\ checks' = [checks EXCEPT ![t].pc = "l65"]
        /\ UNCHANGED <<cwd, authFile, versions, readable, ConcUnchanged>>

\* new_time = os.path.getmtime(".auth"); FileNotFoundError returns ["*"]
CheckGetmtime ==
    \E t \in Threads :
        /\ Step(t, "l65",
                IF authFile.exists
                THEN [checks[t] EXCEPT !.pc = "l66", !.new_time = authFile.mtime]
                ELSE Return(t, "except", << <<"*">> >>))
        /\ UNCHANGED <<cwd, authFile, auth_info, versions, readable, ConcUnchanged>>

\* if new_time > auth_info["mtime"]:
CheckCompare ==
    \E t \in Threads :
        /\ Step(t, "l66",
                [checks[t] EXCEPT
                    !.pc = IF checks[t].new_time > auth_info.mtime
                           THEN "l67" ELSE "l71"])
        /\ UNCHANGED <<cwd, authFile, auth_info, versions, readable, ConcUnchanged>>

\* auth_info["mtime"] = new_time
CheckStoreMtime ==
    \E t \in Threads :
        /\ Step(t, "l67", [checks[t] EXCEPT !.pc = "l68"])
        /\ auth_info' = [auth_info EXCEPT !.mtime = checks[t].new_time]
        /\ UNCHANGED <<cwd, authFile, versions, readable, ConcUnchanged>>

\* with open(".auth") as f: patterns = [line.strip() for line in ...]
\* a missing file raises FileNotFoundError, caught at line 72; a file the
\* process may not read raises PermissionError, which nothing catches
CheckRead ==
    \E t \in Threads :
        /\ Step(t, "l68",
                IF ~authFile.exists THEN Return(t, "except", << <<"*">> >>)
                ELSE IF ~readable THEN Return(t, "raise", <<>>)
                ELSE [checks[t] EXCEPT !.pc = "l70",
                                       !.emails = MapStrip(authFile.lines)])
        /\ UNCHANGED <<cwd, authFile, auth_info, versions, readable, ConcUnchanged>>

\* auth_info["emails"] = [pattern for pattern in patterns if pattern]
CheckStoreEmails ==
    \E t \in Threads :
        /\ Step(t, "l70", [checks[t] EXCEPT !.pc = "l71"])
        /\ auth_info' = [auth_info EXCEPT !.emails = DropEmpty(checks[t].emails)]
        /\ UNCHANGED <<cwd, authFile, versions, readable, ConcUnchanged>>

\* return auth_info["emails"]
CheckReturn ==
    \E t \in Threads :
        /\ Step(t, "l71", Return(t, "cache", auth_info.emails))
        /\ UNCHANGED <<cwd, authFile, auth_info, versions, readable, ConcUnchanged>>

\* the operator changes the permissions of .auth (chmod leaves the
\* modification time alone)
ChmodAuth ==
    /\ authFile.exists
    /\ readable' = ~readable
    /\ UNCHANGED <<cwd, authFile, auth_info, versions, checks, ConcUnchanged>>

\* authorization checks of concurrent requests, and the operator
NextConc ==
    \/ CheckBegin
    \/ CheckEnv
    \/ CheckGetmtime
    \/ CheckCompare
    \/ CheckStoreMtime
    \/ CheckRead
    \/ CheckStoreEmails
    \/ CheckReturn
    \/ WriteAuth
    \/ RemoveAuth
    \/ ChmodAuth

SpecConc == Init /\ [][NextConc]_vars

\* the process is started in /srv/.v/w, a root below a hidden directory
InitRoot == InitIn(<<N_srv, N_v, N_w>>)

\* the gated content route and the operator's changes to the root
NextRoot ==
    \/ ServeStatic
    \/ ToggleDoc
    \/ WriteAuth
    \/ RemoveAuth

SpecRoot == InitRoot /\ [][NextRoot]_vars

-----------------------------------------------------------------------------
(* Vocabulary of the properties                                            *)

\* the gated content route has just answered
Served == resp.req.route = "serve_static"

\* the request carries no session cookie, or an empty one
NoCredential == ~resp.req.session.has \/ resp.req.session.val = <<>>

\* the identity the request presents
Identity == resp.req.session.val

\* the pattern list get_authorized_emails returns in this deployment
AllowList == get_authorized_emails(auth_info, authEnv, authFile).emails

\* the identity matches a pattern of the allow-list under shell-glob semantics
GlobMatches(identity) ==
    \E i \in 1..Len(AllowList) : fnmatch(identity, AllowList[i])

\* the Session Gate let the request through to the Content Resolver
Authorized ==
    Served /\ ~NoCredential /\ is_authorized(Identity, AllowList)

\* what the caller sees of a response
Shape(r) ==
    [status |-> r.status, kind |-> r.kind, arg |-> r.arg, location |-> r.location,
     cookieOp |-> r.cookieOp, headers |-> r.headers, context |-> r.context]

\* the response for a genuinely missing file
MissingShape == Shape(NotFound({}))

\* the Content Resolver's steps
ResolverSteps == {"default", "resolve", "traversal", "dotfiles", "is_file", "handler"}

\* the segments of the request path, as written
Segments == DropEmpty(Split(resp.req.path, "/"))

\* the canonical target of a request that names a path
Canonical == resolve(resp.req.path)

\* path p is root or lies below it, component by component
Nested(p, root) == Len(root) <= Len(p) /\ SubSeq(p, 1, Len(root)) = root

----------------------------------------------------------------------------
(* C1: a request to the gated content route that carries no session cookie *)
(* or an empty one is answered with a redirect to /login whatever the path *)
(* and the deployment, and no step of the authorization check or of the    *)
(* Content Resolver runs for it.                                           *)
C1_NoCredentialRedirects ==
    (Served /\ NoCredential) =>
        /\ resp.res = RedirectResponse("/login", {})
        /\ resp.res.reached = {}

\* an empty cookie asks for a hidden file that exists, and is redirected
C1_Witness ==
    /\ Served
    /\ resp.req.session = Some(<<>>)
    /\ resp.req.path = N_env
    /\ resp.res.location = "/login"

(* C2: a request whose credential matches no pattern of the current        *)
(* allow-list, under the allow-list's glob semantics, is answered with 403 *)
(* and nothing of the Content Resolver runs for it.                        *)
C2_UnmatchedIsForbidden ==
    (Served /\ ~NoCredential /\ ~GlobMatches(Identity)) =>
        /\ resp.res.status = 403
        /\ resp.res.kind = "unauthorized_html"
        /\ resp.res.reached \cap ResolverSteps = {}

(* C3: is_authorized(identity) is true exactly when identity matches at    *)
(* least one pattern of the list get_authorized_emails returns, under      *)
(* case-sensitive shell-glob semantics.                                    *)
C3_IsAuthorizedIsGlobMatch ==
    (Served /\ ~NoCredential) =>
        (is_authorized(Identity, AllowList) <=> GlobMatches(Identity))

(* C4: default-open: where neither AUTH nor .auth exists, no request that  *)
(* carries a credential is answered with 403.                              *)
C4_DefaultOpen ==
    (Served /\ ~NoCredential /\ ~authEnv.has /\ ~authFile.exists) =>
        resp.res.status # 403

(* C5: an authorized request whose canonical path is neither the root nor  *)
(* nested under it component by component is answered with 404.            *)
C5_OutsideRootIsNotFound ==
    (Authorized /\ resp.req.path # <<>> /\ ~Nested(Canonical, resolve(<<>>))) =>
        Shape(resp.res) = MissingShape

\* what the code does guarantee for C2: once is_authorized has returned
\* false, the 403 page naming the identity is the whole response
C2_ForbiddenIsTerminal ==
    (Served /\ ~NoCredential /\ ~is_authorized(Identity, AllowList)) =>
        /\ Shape(resp.res) = Shape(Response(403, "unauthorized_html", Identity, "", {}))
        /\ resp.res.reached = {"is_authorized"}

\* the canonical path passes the code's guards and names a regular file
Servable(p) ==
    /\ StartsWith(Str(p), Str(resolve(<<>>)))
    /\ \A i \in 1..Len(p) : Head(p[i]) # "."
    /\ is_file(p)

C7_DotSegmentIsNotFound ==
    (Authorized /\ \E i \in 1..Len(Segments) : Head(Segments[i]) = ".") =>
        Shape(resp.res) = MissingShape

(* C7, amended: an authorized request whose canonicalized path has a       *)
(* segment beginning with `.` is answered with 404, even when the identity *)
(* is on the allow-list and the path names an existing regular file.       *)
C7_HiddenCanonicalIsNotFound ==
    (Authorized /\ resp.req.path # <<>>
       /\ \E i \in 1..Len(Canonical) : Head(Canonical[i]) = ".") =>
        Shape(resp.res) = MissingShape

\* the link ln leads to the existing hidden file .env: 404
C7_Witness ==
    /\ Authorized
    /\ resp.req.path = N_ln
    /\ Canonical = Cwd \o <<N_env>>
    /\ is_file(Canonical)
    /\ Shape(resp.res) = MissingShape

(* C8: whenever the gated content route treats a request as authenticated  *)
(* with identity e and lets it through to the content, an earlier callback *)
(* completed a successful exchange that yielded e and minted the           *)
(* credential.                                                             *)
C8_CredentialProvesLogin ==
    Authorized => Identity \in minted

(* C9: the callback sets the session cookie to exactly the verified email  *)
(* (HTTP-only, secure, same-site lax) and redirects to / when exchange and *)
(* verification succeed; when a step fails it answers 400 with the failure *)
(* detail and sets no cookie.                                              *)
C9_CallbackOutcome ==
    resp.req.route = "googleauth" =>
        IF resp.req.outcome = "ok"
        THEN /\ resp.res.kind = "RedirectResponse"
             /\ resp.res.location = "/"
             /\ resp.res.cookieOp = "set"
             /\ resp.res.cookieVal = resp.req.email
             /\ resp.res.cookieFlags = {"httponly", "secure", "samesite=lax"}
             /\ cookie = Some(resp.req.email)
        ELSE /\ resp.res.status = 400
             /\ resp.res.arg # <<>>
             /\ resp.res.cookieOp = "none"
             /\ cookie = resp.req.session
             /\ "set_cookie" \notin resp.res.reached

\* a failed verification leaves a browser that held a@x with that cookie,
\* not with a new one
C9_Witness ==
    /\ resp.req.route = "googleauth"
    /\ resp.req.outcome = "verify_error"
    /\ resp.req.session = Some(E_ax)
    /\ resp.res.status = 400
    /\ cookie = Some(E_ax)

(* C10: logout clears the session cookie and redirects to /login, and a    *)
(* gated content request the browser makes after a logout, with no         *)
(* successful callback in between, carries no credential and is redirected *)
(* to /login.                                                              *)
C10_LogoutClears ==
    /\ resp.req.route = "logout" =>
         /\ resp.res.kind = "RedirectResponse"
         /\ resp.res.location = "/login"
         /\ resp.res.cookieOp = "delete"
         /\ cookie = None
    /\ (Served /\ loggedOut /\ resp.req.session = cookie) =>
         /\ NoCredential
         /\ resp.res = RedirectResponse("/login", {})

\* a browser that had logged in as a@x logs out and asks for d/p.t
C10_Witness ==
    /\ Served
    /\ loggedOut
    /\ E_ax \in minted
    /\ resp.req.session = cookie
    /\ resp.req.path = Join(<<N_d, N_ptxt>>)
    /\ resp.res.location = "/login"

----------------------------------------------------------------------------
\* the allow-list comes from the file .auth
FileBacked == ~EnvSet(authEnv) /\ authFile.exists

(* C11: for the file-backed allow-list, consecutive get_authorized_emails  *)
(* calls with no modification of .auth in between return the same list,    *)
(* and the first call after .auth's modification time has advanced past    *)
(* the last-seen value returns exactly the parse of the new content.       *)
C11_ReloadIdempotentAndFresh ==
    [][ (Served' /\ ~NoCredential' /\ FileBacked) =>
          /\ (authFile.mtime > auth_info.mtime) =>
                resp'.emails = Some(ParseFile(authFile.lines))
          /\ (Served /\ ~NoCredential) => resp'.emails = resp.emails ]_vars

\* a check has used the second version of .auth, whose parse drops the blank
\* line and the blanks round a pattern
C11_Witness ==
    /\ Served /\ ~NoCredential /\ FileBacked
    /\ authFile.mtime = 2
    /\ auth_info.mtime = 2
    /\ authFile.lines # <<>>
    /\ resp.emails = Some(<<E_ax, <<"*", "@", "y">>, E_cls>>)

(* C12: once get_authorized_emails has returned a list parsed from AUTH,   *)
(* every later call returns that list, whatever happens to AUTH or to      *)
(* .auth; and the list returned while AUTH is set is a parse of AUTH,      *)
(* never patterns cached from .auth.                                       *)
C12_EnvListFrozen ==
    (Served /\ ~NoCredential) =>
        /\ envList.has => resp.emails = envList
        /\ EnvSet(authEnv) =>
             \E v \in EnvChanges : EnvSet(v) /\ resp.emails = Some(ParseEnv(v.val))

\* worker t is between storing the timestamp and storing the list
Reloading(t) == checks[t].pc \in {"l68", "l70"}

(* C13: under any interleaving of authorization checks with each other and *)
(* with modifications of .auth, the list a check returns from the cache is *)
(* the complete parse of a version of .auth that has existed; never a      *)
(* list no version held, such as the initial empty cache.                  *)
C13_ListIsSomeVersion ==
    \A t \in Threads :
        (checks[t].pc = "done" /\ checks[t].via = "cache") =>
            checks[t].result \in versions

(* C18: when no reload is in progress and the cached timestamp equals the  *)
(* modification time of .auth, the cached list is the parse of the current *)
(* content of .auth.                                                       *)
C18_CacheCoherent ==
    ( /\ \A t \in Threads : ~Reloading(t)
      /\ authFile.exists
      /\ auth_info.mtime = authFile.mtime ) =>
        auth_info.emails = ParseFile(authFile.lines)

\* the request's canonical target is rejected for one of the three causes:
\* it lies outside the root, it has a hidden segment, or it is no regular file
Rejected ==
    \/ ~Nested(Canonical, resolve(<<>>))
    \/ \E i \in 1..Len(Canonical) : Head(Canonical[i]) = "."
    \/ ~is_file(Canonical)

(* C14: for an authorized identity, a traversal attempt, a hidden-file     *)
(* access and a request for a missing file all get the same response, the  *)
(* 404 of a missing file, whether or not the rejected target exists.       *)
C14_UniformNotFound ==
    (Authorized /\ resp.req.path # <<>> /\ Rejected) =>
        Shape(resp.res) = MissingShape

\* what the code does guarantee for C14: every 404 of the route is the same
\* response, whichever guard raised it
C14_RejectionsIdentical ==
    (Served /\ resp.res.status = 404) => Shape(resp.res) = MissingShape

\* the request asks for `/` in a deployment whose allow-list is the file
\* .auth and whose root holds index.jinja2
RootOfTemplateSite ==
    /\ Served
    /\ resp.req.path = <<>>
    /\ FileBacked
    /\ Cwd \o <<N_jinja2>> \in present

(* C15: in a deployment with a .auth file and an index.jinja2, a request   *)
(* for `/` without a cookie is redirected to /login; with the credential a *)
(* successful exchange minted it gets 403 naming that email while .auth is *)
(* empty; and once the email is a line of .auth it gets index.jinja2,      *)
(* resolved as the default document and rendered with the three asset URLs.*)
C15_EndToEnd ==
    RootOfTemplateSite =>
        /\ NoCredential => Shape(resp.res) = Shape(RedirectResponse("/login", {}))
        /\ (resp.req.session = Some(E_ax) /\ E_ax \in minted) =>
             /\ ParseFile(authFile.lines) = <<>> =>
                  Shape(resp.res) =
                      Shape(Response(403, "unauthorized_html", E_ax, "", {}))
             /\ InList(E_ax, ParseFile(authFile.lines)) =>
                  /\ resp.res.status = 200
                  /\ resp.res.kind = "render_jinja2"
                  /\ resp.res.arg = Str(resolve(N_jinja2))
                  /\ resp.res.context =
                       {<<"bootstrap5_css_url",
                          "https://cdn.jsdelivr.net/npm/bootstrap@5.3.2/dist/css/bootstrap.min.css">>,
                        <<"bootstrap5_js_url",
                          "https://cdn.jsdelivr.net/npm/bootstrap@5.3.2/dist/js/bootstrap.bundle.min.js">>,
                        <<"script_js_url", "script.js">>}

\* the last stage: the browser logged in as a@x while .auth was empty, the
\* empty list was cached, then a@x was added to .auth, and `/` is rendered
C15_Witness ==
    /\ RootOfTemplateSite
    /\ resp.req.session = cookie
    /\ cookie = Some(E_ax)
    /\ E_ax \in minted
    /\ <<>> \in versions
    /\ authFile.mtime = 2
    /\ auth_info = [mtime |-> 2, emails |-> ParseFile(authFile.lines)]
    /\ resp.res.kind = "render_jinja2"

\* the calls the callback request made, in order
Calls == resp.res.calls

\* how often the callback made the call x
RECURSIVE Count(_, _)
Count(seq, x) ==
    IF seq = <<>> THEN 0
    ELSE (IF Head(seq) = x THEN 1 ELSE 0) + Count(Tail(seq), x)

\* the call x was made, and only after the call y
After(x, y) ==
    \A i \in 1..Len(Calls) :
        Calls[i] = x => \E j \in 1..(i - 1) : Calls[j] = y

(* C16: within one callback request the token endpoint is posted to at     *)
(* most once; verification is attempted only after the exchange succeeded; *)
(* the email is extracted and the cookie set only after verification       *)
(* succeeded; a failing step is the last call of the request, which then   *)
(* ends with 400; and the email set is that of this request's token.       *)
C16_OrderedNoRetry ==
    resp.req.route = "googleauth" =>
        /\ Count(Calls, "post") <= 1
        /\ After("raise_for_status", "post")
        /\ After("json", "raise_for_status")
        /\ After("verify", "json")
        /\ "verify" \in Range(Calls) =>
               resp.req.outcome \notin {"post_error", "status_error", "no_id_token"}
        /\ After("email", "verify")
        /\ After("set_cookie", "email")
        /\ ("email" \in Range(Calls) \/ resp.res.cookieOp = "set") =>
               resp.req.outcome \in {"no_email", "ok"}
        /\ \A x \in Range(Calls) : Count(Calls, x) = 1
        /\ resp.req.outcome # "ok" =>
               /\ resp.res.status = 400
               /\ resp.res.cookieOp = "none"
               /\ "set_cookie" \notin Range(Calls)
        /\ resp.res.cookieOp = "set" => resp.res.cookieVal = resp.req.email

\* a callback whose token fails verification, from a browser that an
\* earlier callback had logged in: the request stops at the verification
C16_Witness ==
    /\ resp.req.route = "googleauth"
    /\ resp.req.outcome = "verify_error"
    /\ E_ax \in minted
    /\ Calls = <<"post", "raise_for_status", "json", "verify">>
    /\ resp.res.status = 400

(* C17: for an authorized request with an empty path, index.jinja2 is      *)
(* served when it exists, whether or not index.html exists; index.html is  *)
(* served when only it exists; and when neither exists the response is the *)
(* 404 of a missing file.                                                  *)
C17_DefaultDocument ==
    (Authorized /\ resp.req.path = <<>>) =>
        IF Cwd \o <<N_jinja2>> \in present THEN
            /\ resp.res.status = 200
            /\ resp.res.kind = "render_jinja2"
            /\ resp.res.arg = Str(Cwd \o <<N_jinja2>>)
        ELSE IF Cwd \o <<N_html>> \in present THEN
            /\ resp.res.status = 200
            /\ resp.res.kind = "render_html"
            /\ resp.res.arg = Str(Cwd \o <<N_html>>)
        ELSE Shape(resp.res) = MissingShape

\* both default documents exist and the template is the one served
C17_Witness ==
    /\ Authorized
    /\ resp.req.path = <<>>
    /\ present = DefaultDocs
    /\ resp.res.kind = "render_jinja2"

\* the request carries a credential that is_authorized turned down
Unauthorized ==
    /\ Served
    /\ ~NoCredential
    /\ resp.emails.has
    /\ ~is_authorized(Identity, resp.emails.val)

(* C19: the response to a request whose credential is not authorized is a  *)
(* function of the credential alone: the 403 page naming it, with nothing  *)
(* of the path or of the filesystem in it and no path or file check run,   *)
(* so two such requests with the same credential get identical responses   *)
(* whatever they ask for and whatever the root holds.                      *)
C19_NoFilesystemOracle ==
    (Served /\ ~NoCredential /\ ~is_authorized(Identity, resp.emails.val)) =>
        resp.res = Response(403, "unauthorized_html", Identity, "", {"is_authorized"})

\* b@y, which the file's patterns do not hold, asks for a hidden file that
\* exists
C19_Witness ==
    /\ Unauthorized
    /\ Identity = E_by
    /\ FileBacked
    /\ resp.req.path = N_env
    /\ is_file(Canonical)
    /\ resp.res.status = 403

\* the requested path, as written, has no hidden segment and no `..`, and
\* is itself a regular file below the deployment root
VisibleFile ==
    /\ resp.req.path # <<>>
    /\ Head(resp.req.path) # "/"
    /\ \A i \in 1..Len(Segments) : Head(Segments[i]) # "."
    /\ is_file(Cwd \o Segments)

(* C20: an authorized request whose path has no segment beginning with `.` *)
(* and no `..`, and names an existing regular file under the deployment    *)
(* root, is never answered with 404, wherever the root lies.               *)
C20_VisibleFileIsServed ==
    (Authorized /\ VisibleFile) => resp.res.status # 404

====
